---- MODULE Spec2Model ----
(***************************************************************************)
(* The service supervisor of dynamic_ai_chatbot: start_all.sh (startup     *)
(* sequence, readiness polling, monitoring loop, trap-driven cleanup) and  *)
(* stop_all.sh, run against an environment of service processes and of     *)
(* processes that held the service ports before the run.                   *)
(*                                                                         *)
(* One step of the supervisor is one command of the script.  bash runs a   *)
(* trap between two commands, so a pending signal is handled before the    *)
(* next command; `exit` inside a signal trap runs the EXIT trap, and       *)
(* `exit` inside the EXIT trap ends the shell with that status.            *)
(*                                                                         *)
(* The services are black boxes: a launched service binds its port at some *)
(* point if the port is free, may end at any point, and exits on SIGTERM   *)
(* unless it ignores it.  A process that held a port before the run stays  *)
(* as it is unless a kill ends it.  Each service is the one process that   *)
(* start_service launched; PIDs are not reused during a run.  An earlier   *)
(* run (start_all.sh ended without its cleanup or survived by a process,   *)
(* quick_start.sh, which tracks nothing) may have left a service process   *)
(* that is alive and not bound to its port.                                *)
(***************************************************************************)
EXTENDS Integers, Sequences, FiniteSets

\* ------------------------------------------------------------------ bounds
\* signals handled by the supervisor in one run
MaxSignals == 2
\* runs of stop_all.sh
MaxStopRuns == 2
\* processes that exist when the run begins: holders of a service port and
\* service processes left by an earlier run
MaxForeign == 1
\* invocations of fetchDashboardData followed in one life of the App component
MaxCalls == 4

\* ------------------------------------------------------- program constants
NumServices == 3
CHATBOT_PORT == 8000
DASHBOARD_BACKEND_PORT == 5000
DASHBOARD_FRONTEND_PORT == 3000
max_attempts == 30
NumPatterns == 5

Svc == 1..NumServices

\* The port of the i-th service of the startup sequence.
Port(i) ==
    CASE i = 1 -> CHATBOT_PORT
      [] i = 2 -> DASHBOARD_BACKEND_PORT
      [] OTHER -> DASHBOARD_FRONTEND_PORT

VARIABLES
    pc,          \* supervisor: the command it is about to run
    svc,         \* supervisor: index of the port / service being handled
    attempt,     \* wait_for_service: local attempt
    cidx,        \* cleanup: position in the PID list / port list
    cpids,       \* cleanup: the PID list being read (the open file)
    proc,        \* the process of each service
    foreign,     \* per port: the process that held it before the run
    prior,       \* services with a process left alive by an earlier run
    pidsExists,  \* .service_pids exists
    pids,        \* .service_pids: the recorded PIDs, in order
    readyOn,     \* per service: the probe answer on which wait_for_service
                 \* returned 0, "none" while it has not
    sigPending,  \* a SIGINT/SIGTERM is waiting for its trap to run
    inExitTrap,  \* the EXIT trap has been entered
    cleanupStarts, \* executions of cleanup begun
    cleanupEnds,   \* executions of cleanup that reached `exit 0`
    exitCode,    \* status the supervisor ended with, -1: still running
    cause,       \* why the main script ended
    reported,    \* the recorded service an error message has named as
                 \* failed, 0: none
    stopped,     \* the recorded services cleanup's PID loop has handled
    spc,         \* stop_all.sh: the command it is about to run
    sidx,        \* stop_all.sh: index of the pattern / port being handled
    spids,       \* kill_by_pattern: local pids
    stopRuns,    \* runs of stop_all.sh begun
    stopPre,     \* what the current run of stop_all.sh found when it began
    stopSent,    \* the current run of stop_all.sh sent a signal
    stopRemoved, \* the current run of stop_all.sh removed .service_pids
    stopSnap,    \* processes and files when a second run of stop_all.sh began
    stopExit,    \* status the last run of stop_all.sh ended with, -1: none
    log,         \* per service: the launches whose output its log file holds
    qpc,         \* quick_start.sh: the command it is about to run
    app,         \* the dashboard App component: its state and its timer
    dk           \* docker-run.sh and docker-run.ps1: one command line given
                 \* to both, and the run of each on its own machine

ctlVars == <<pc, svc, attempt>>
clVars == <<cidx, cpids>>
trapVars == <<inExitTrap, cleanupStarts, cleanupEnds, exitCode>>
hVars == <<reported, stopped>>
supVars == <<ctlVars, clVars, trapVars, readyOn, cause, hVars>>
sigVars == <<sigPending>>
envVars == <<proc, foreign, prior>>
fileVars == <<pidsExists, pids>>
stopVars == <<spc, sidx, spids, stopRuns, stopPre, stopSent, stopRemoved,
              stopSnap, stopExit>>
offVars == <<qpc, app, dk>>
restVars == <<log, offVars>>
vars == <<supVars, sigVars, envVars, fileVars, stopVars, restVars>>

\* ------------------------------------------------------------- processes
Alive == {"starting", "listening"}

\* A service process: st is its state ("none": not launched, "starting":
\* running and not yet bound to its port, "listening", "dead"), ign whether
\* it ignores SIGTERM, term whether it has been sent SIGTERM.  A process
\* that has ended has no signal disposition left.
NoProc == [st |-> "none", ign |-> FALSE, term |-> FALSE]
DeadProc == [st |-> "dead", ign |-> FALSE, term |-> FALSE]

\* A foreign process on a port: "transient" is gone after a kill ("none");
\* "persistent" is still bound after it (the kill fails, or the occupant is
\* brought back by whatever supervises it).
ForeignAlive == {"transient", "persistent"}

\* check_port: lsof -Pi :port -sTCP:LISTEN -t finds a listener
check_port(i) == proc[i].st = "listening" \/ foreign[i] \in ForeignAlive

\* kill -TERM pid: a process that does not ignore it exits
SendTERM(p, i) ==
    IF p[i].st \in Alive
    THEN [p EXCEPT ![i] = IF p[i].ign THEN [@ EXCEPT !.term = TRUE]
                                      ELSE DeadProc]
    ELSE p

\* kill -9 pid
SendKILL(p, i) ==
    IF p[i].st \in Alive
    THEN [p EXCEPT ![i] = DeadProc]
    ELSE p

\* a kill of the foreign process of port i; the scripts hide a failure
\* (2>/dev/null || true)
KillForeign(f, i) ==
    IF f[i] = "transient" THEN [f EXCEPT ![i] = "none"] ELSE f

\* kill_port, line 58: the signal it sends to the occupant (kill -9), the
\* only one
kill_port_signal == "KILL"

\* kill_port sending SIGTERM where the script sends SIGKILL
kill_port_proc_term(p, i) ==
    IF p[i].st = "listening" THEN SendTERM(p, i) ELSE p

\* kill_port, on the service processes: kill -9 $(lsof -ti :port)
kill_port_proc(p, i) ==
    IF p[i].st = "listening" THEN SendKILL(p, i) ELSE p

\* kill_port, on the foreign process of the port
kill_port_foreign(f, i) == KillForeign(f, i)

\* wait_for_service has returned 0 for service i
Ready(i) == readyOn[i] # "none"
AllReady == \A i \in Svc : Ready(i)

\* service i has been launched
Launched(i) == proc[i].st # "none"

\* ------------------------------------------------------------------ Init
\* docker-run.sh and docker-run.ps1 before either is run.  A run is the
\* command the script is at, the docker-compose command lines it has
\* executed, its exit status (-1: running) and its machine: .env.docker,
\* the containers, the images and the volumes of the project.
NoRun ==
    [pc |-> "off", calls |-> <<>>, exit |-> -1, envFile |-> FALSE,
     stack |-> "down", images |-> FALSE, volumes |-> FALSE]

DockerOff == [in |-> <<>>, sh |-> NoRun, ps |-> NoRun]

\* the six requests of one fetchDashboardData (App.js lines 49-54), and
\* with them the six data states (lines 18-23)
NumRequests == 6
Requests == 1..NumRequests

\* How a fetch of apiClient.get can end: no response (network failure), or
\* a response with its ok flag and a body that parses as JSON or does not.
Responses ==
    {[arrives |-> FALSE, ok |-> FALSE, json |-> FALSE]}
      \cup [arrives : {TRUE}, ok : BOOLEAN, json : BOOLEAN]

GoodResponse == [arrives |-> TRUE, ok |-> TRUE, json |-> TRUE]

\* The ways the six requests of one invocation end that are followed: all
\* good, one of them ending in any other way, all without a response.
ResponseCases ==
    {[r \in Requests |-> GoodResponse]}
      \cup {[r \in Requests |-> IF r = q THEN x ELSE GoodResponse] :
               q \in Requests, x \in Responses \ {GoodResponse}}
      \cup {[r \in Requests |-> [arrives |-> FALSE, ok |-> FALSE,
                                 json |-> FALSE]]}

\* The dashboard App component before it is mounted: useState of App.js
\* lines 18-25 (the six data states are {}, loading is true, error is null).
\* For each of the six data states, data holds the invocation it came from.
\* failed and latest remember what happened: the requests that failed in
\* the invocation that settled last, and how the invocation that started
\* last has ended.
AppOff ==
    [mounted |-> "no", timer |-> FALSE, calls |-> 0, ticks |-> 0,
     clicks |-> 0, inflight |-> {}, loading |-> TRUE, error |-> FALSE,
     data |-> [r \in Requests |-> 0], failed |-> {}, latest |-> "pending"]

\* Before a script is started: no script has run a command yet, none of its
\* processes exists, and the log files hold what the launches of an earlier
\* run wrote.
Boot ==
    /\ pc = "dircheck"
    /\ svc = 1
    /\ attempt = 1
    /\ cidx = 1
    /\ cpids = <<>>
    /\ proc = [i \in Svc |-> NoProc]
    /\ pidsExists = FALSE
    /\ pids = <<>>
    /\ readyOn = [i \in Svc |-> "none"]
    /\ sigPending = FALSE
    /\ inExitTrap = FALSE
    /\ cleanupStarts = 0
    /\ cleanupEnds = 0
    /\ exitCode = -1
    /\ cause = "none"
    /\ reported = 0
    /\ stopped = {}
    /\ spc = "idle"
    /\ sidx = 1
    /\ spids = {}
    /\ stopRuns = 0
    /\ stopPre = "none"
    /\ stopSent = FALSE
    /\ stopRemoved = FALSE
    /\ stopSnap = <<>>
    /\ stopExit = -1
    /\ log = [i \in Svc |-> <<"earlier">>]

\* The supervisor is started on a machine where an earlier run may have left
\* service processes behind.
\* the machine a script finds: few foreign port holders and few processes
\* of an earlier run
Machine ==
    /\ Boot
    /\ foreign \in [Svc -> {"none", "transient", "persistent"}]
    /\ prior \in SUBSET Svc
    /\ Cardinality({i \in Svc : foreign[i] # "none"}) + Cardinality(prior)
           <= MaxForeign

InitRerun == Machine /\ qpc = <<"off", 0>> /\ app = AppOff /\ dk = DockerOff

\* The supervisor is started on a machine where no earlier run has left a
\* service process.
Init == InitRerun /\ prior = {}

\* ------------------------------------------------------------ exit paths
\* Entering cleanup: the main script's position and locals are dead.
EnterCleanup ==
    /\ pc' = "cleanup"
    /\ svc' = 1
    /\ attempt' = 1
    /\ cidx' = 1
    /\ cpids' = <<>>
    /\ cleanupStarts' = cleanupStarts + 1

\* `exit code`: outside the EXIT trap it runs the trap (cleanup); inside it,
\* it ends the shell with that status.
Exit(code) ==
    IF inExitTrap
    THEN /\ pc' = "done"
         /\ exitCode' = code
         /\ UNCHANGED <<svc, attempt, cidx, cpids, inExitTrap, cleanupStarts,
                        sigPending>>
    ELSE /\ EnterCleanup
         /\ inExitTrap' = TRUE
         /\ UNCHANGED <<exitCode, sigVars>>

\* An `exit code` of the main script (or a command failing under set -e).
MainExit(code, why) ==
    /\ cause' = why
    /\ Exit(code)
    /\ UNCHANGED cleanupEnds

\* a supervisor that goes on with its script while a signal is pending
Running_IgnoresPending == pc # "done"

\* The supervisor runs its next command: bash handles a pending signal first.
Running == pc # "done" /\ ~sigPending

\* ------------------------------------------------------ start_all.sh: main
\* lines 143-147: the script must run from the project root
DirCheck(inRoot) ==
    /\ Running /\ pc = "dircheck"
    /\ IF inRoot
       THEN /\ pc' = "prepare"
            /\ UNCHANGED <<svc, attempt, clVars, trapVars, cause, sigVars>>
       ELSE MainExit(1, "preflight")
    /\ UNCHANGED <<readyOn, hVars, envVars, fileVars, stopVars>>
    /\ UNCHANGED restVars

\* lines 149-151: mkdir -p logs; rm -f .service_pids
Prepare ==
    /\ Running /\ pc = "prepare"
    /\ pc' = "pf_check"
    /\ svc' = 1
    /\ pidsExists' = FALSE
    /\ pids' = <<>>
    /\ UNCHANGED <<attempt, clVars, trapVars, readyOn, hVars, cause>>
    /\ UNCHANGED <<sigVars, envVars, stopVars>>
    /\ UNCHANGED restVars

\* what follows the pre-flight check of port svc
PreflightNext ==
    IF svc < NumServices
    THEN pc' = "pf_check" /\ svc' = svc + 1
    ELSE pc' = "deps" /\ svc' = 1

\* lines 155, 160, 165: if check_port $PORT
PreflightCheck ==
    /\ Running /\ pc = "pf_check"
    /\ IF check_port(svc)
       THEN pc' = "pf_kill" /\ UNCHANGED svc
       ELSE PreflightNext
    /\ UNCHANGED <<attempt, clVars, trapVars, readyOn, hVars, cause>>
    /\ UNCHANGED <<sigVars, envVars, fileVars, stopVars>>
    /\ UNCHANGED restVars

\* lines 157, 162, 167: kill_port $PORT
PreflightKill ==
    /\ Running /\ pc = "pf_kill"
    /\ proc' = kill_port_proc(proc, svc)
    /\ foreign' = kill_port_foreign(foreign, svc)
    /\ UNCHANGED prior
    /\ PreflightNext
    /\ UNCHANGED <<attempt, clVars, trapVars, readyOn, hVars, cause>>
    /\ UNCHANGED <<sigVars, fileVars, stopVars>>
    /\ UNCHANGED restVars

\* lines 170-206: dependency checks; a failing pip/npm install (set -e) or a
\* missing node/npm (exit 1) ends the script
CheckDeps(ok) ==
    /\ Running /\ pc = "deps"
    /\ IF ok
       THEN /\ pc' = "spawn"
            /\ UNCHANGED <<svc, attempt, clVars, trapVars, cause, sigVars>>
       ELSE MainExit(1, "preflight")
    /\ UNCHANGED <<readyOn, hVars, envVars, fileVars, stopVars>>
    /\ UNCHANGED restVars

\* What the launch line of a service gives its command, as arguments or as
\* environment assignments (lines 213-217, 227-231, 241-245): the chatbot
\* gets --host and --port, "python app.py" and "npm start" get nothing, and
\* start_service (line 101) adds nothing to the inherited environment.
passed(i) == IF i = 1 THEN {"host", "port"} ELSE {}

\* start_service, line 101: > "$log_file" opens the log for the launch; the
\* file is truncated and then holds what this launch writes
redirect(content) == <<"run">>

\* start_service, lines 101-102: nohup bash -c "$command" > "$log_file" 2>&1 &
StartServiceSpawn(ignoresTerm) ==
    /\ Running /\ pc = "spawn"
    /\ proc' = [proc EXCEPT ![svc] = [st |-> "starting", ign |-> ignoresTerm,
                                      term |-> FALSE]]
    /\ log' = [log EXCEPT ![svc] = redirect(log[svc])]
    /\ pc' = "record"
    /\ UNCHANGED <<svc, attempt, clVars, trapVars, readyOn, hVars, cause>>
    /\ UNCHANGED <<sigVars, foreign, prior, fileVars, stopVars>>
    /\ UNCHANGED offVars

\* start_service, lines 101-102, for a command that cannot run (bad command,
\* missing interpreter, no permission): the background bash -c ends at once
\* with 126/127; `&` itself succeeds and $! is the PID of that bash
StartServiceSpawnFails ==
    /\ Running /\ pc = "spawn"
    /\ proc' = [proc EXCEPT ![svc] = DeadProc]
    /\ log' = [log EXCEPT ![svc] = redirect(log[svc])]
    /\ pc' = "record"
    /\ UNCHANGED <<svc, attempt, clVars, trapVars, readyOn, hVars, cause>>
    /\ UNCHANGED <<sigVars, foreign, prior, fileVars, stopVars>>
    /\ UNCHANGED offVars

\* start_service followed by the next launch, without the readiness gate
StartServiceRecord_NoWait ==
    /\ Running /\ pc = "record"
    /\ pidsExists' = TRUE
    /\ pids' = Append(pids, svc)
    /\ IF svc < NumServices
       THEN pc' = "spawn" /\ svc' = svc + 1
       ELSE pc' = "monitor" /\ svc' = 1
    /\ attempt' = 1
    /\ UNCHANGED <<clVars, trapVars, readyOn, hVars, cause>>
    /\ UNCHANGED <<sigVars, envVars, stopVars>>
    /\ UNCHANGED restVars

\* start_service, line 105: echo $pid >> "$PROJECT_ROOT/.service_pids"
StartServiceRecord ==
    /\ Running /\ pc = "record"
    /\ pidsExists' = TRUE
    /\ pids' = Append(pids, svc)
    /\ pc' = "wait"
    /\ attempt' = 1
    /\ UNCHANGED <<svc, clVars, trapVars, readyOn, hVars, cause>>
    /\ UNCHANGED <<sigVars, envVars, stopVars>>
    /\ UNCHANGED restVars

\* The answers a probe of the service's URL can get: "ok" is an HTTP success
\* status, "httperr" any other HTTP status (404, 500), "failed" no HTTP
\* answer at all (connection refused, or a listener that does not speak
\* HTTP).  The service answers once it listens; before that whatever else
\* holds the port does.
ProbeAnswers(i) ==
    IF proc[i].st = "listening" THEN {"ok", "httperr"}
    ELSE IF foreign[i] \in ForeignAlive THEN {"ok", "httperr", "failed"}
    ELSE {"failed"}

\* line 73: curl -s "$url" >/dev/null 2>&1 (no --fail: any HTTP answer is 0)
curl_succeeds(answer) == answer # "failed"

\* a startup sequence that enters the monitoring loop after the second
\* service
StartupNext_SkipLast ==
    IF svc < NumServices - 1
    THEN pc' = "spawn" /\ svc' = svc + 1
    ELSE pc' = "monitor" /\ svc' = 1

\* what follows a wait_for_service that returned 0
StartupNext ==
    IF svc < NumServices
    THEN pc' = "spawn" /\ svc' = svc + 1
    ELSE pc' = "monitor" /\ svc' = 1

\* wait_for_service with a loop that runs while attempt <= max_attempts + 1
WaitProbe_OneMore(answer) ==
    /\ Running /\ pc = "wait"
    /\ attempt <= max_attempts + 1
    /\ answer \in ProbeAnswers(svc)
    /\ IF curl_succeeds(answer)
       THEN /\ readyOn' = [readyOn EXCEPT ![svc] = answer]
            /\ attempt' = 1
            /\ StartupNext
       ELSE /\ attempt' = attempt + 1
            /\ UNCHANGED <<pc, svc, readyOn>>
    /\ UNCHANGED <<clVars, trapVars, cause, hVars>>
    /\ UNCHANGED <<sigVars, envVars, fileVars, stopVars>>
    /\ UNCHANGED restVars

\* wait_for_service, lines 72-81: one pass of the loop
WaitProbe(answer) ==
    /\ Running /\ pc = "wait"
    /\ attempt <= max_attempts
    /\ answer \in ProbeAnswers(svc)
    /\ IF curl_succeeds(answer)
       THEN /\ readyOn' = [readyOn EXCEPT ![svc] = answer]
            /\ attempt' = 1
            /\ StartupNext
       ELSE /\ attempt' = attempt + 1
            /\ UNCHANGED <<pc, svc, readyOn>>
    /\ UNCHANGED <<clVars, trapVars, cause, hVars>>
    /\ UNCHANGED <<sigVars, envVars, fileVars, stopVars>>
    /\ UNCHANGED restVars

\* a caller that launches the service again after a failed wait
WaitTimeout_Retry ==
    /\ Running /\ pc = "wait"
    /\ attempt > max_attempts
    /\ pc' = "spawn"
    /\ attempt' = 1
    /\ reported' = svc
    /\ UNCHANGED <<svc, clVars, trapVars, readyOn, cause, stopped>>
    /\ UNCHANGED <<sigVars, envVars, fileVars, stopVars>>
    /\ UNCHANGED restVars

\* wait_for_service, lines 83-84, and the caller's print_error "Failed to
\* start <service>" and exit 1 (221-222, 235-236, 249-250)
WaitTimeout ==
    /\ Running /\ pc = "wait"
    /\ attempt > max_attempts
    /\ MainExit(1, "readiness")
    /\ reported' = svc
    /\ UNCHANGED <<readyOn, stopped, envVars, fileVars, stopVars>>
    /\ UNCHANGED restVars

\* a monitoring loop that launches the missing service again
MonitorCheck_Relaunch ==
    /\ Running /\ pc = "monitor"
    /\ IF check_port(svc)
       THEN /\ svc' = IF svc < NumServices THEN svc + 1 ELSE 1
            /\ UNCHANGED <<pc, cause, reported>>
       ELSE /\ pc' = "spawn"
            /\ reported' = svc
            /\ UNCHANGED <<svc, cause>>
    /\ UNCHANGED <<attempt, clVars, trapVars, readyOn, stopped>>
    /\ UNCHANGED <<sigVars, envVars, fileVars, stopVars>>
    /\ UNCHANGED restVars

\* a monitoring loop without `break`: it reports and goes on checking
MonitorCheck_NoBreak ==
    /\ Running /\ pc = "monitor"
    /\ svc' = IF svc < NumServices THEN svc + 1 ELSE 1
    /\ reported' = IF check_port(svc) THEN reported ELSE svc
    /\ UNCHANGED <<pc, cause>>
    /\ UNCHANGED <<attempt, clVars, trapVars, readyOn, stopped>>
    /\ UNCHANGED <<sigVars, envVars, fileVars, stopVars>>
    /\ UNCHANGED restVars

\* lines 288-306: one check_port of the monitoring loop; after the third
\* the loop sleeps and starts over.  A port found free: print_error
\* "<service> stopped unexpectedly!" and break
MonitorCheck ==
    /\ Running /\ pc = "monitor"
    /\ IF check_port(svc)
       THEN /\ svc' = IF svc < NumServices THEN svc + 1 ELSE 1
            /\ UNCHANGED <<pc, cause, reported>>
       ELSE /\ pc' = "end"
            /\ svc' = 1
            /\ cause' = "monitor"
            /\ reported' = svc
    /\ UNCHANGED <<attempt, clVars, trapVars, readyOn, stopped>>
    /\ UNCHANGED <<sigVars, envVars, fileVars, stopVars>>
    /\ UNCHANGED restVars

\* after `break`: the script ends, which runs the EXIT trap
MonitorEnd ==
    /\ Running /\ pc = "end"
    /\ Exit(0)
    /\ UNCHANGED <<cleanupEnds, readyOn, hVars, cause>>
    /\ UNCHANGED <<envVars, fileVars, stopVars>>
    /\ UNCHANGED restVars

\* ----------------------------------------------------- start_all.sh: traps
\* line 137: trap cleanup SIGINT SIGTERM EXIT, for a delivered signal.  A
\* signal handled while cleanup runs starts cleanup again (nested); the
\* interrupted execution never resumes, since the nested one ends in exit.
TrapSignal ==
    /\ pc # "done" /\ sigPending
    /\ sigPending' = FALSE
    /\ EnterCleanup
    /\ cause' = IF cause = "none" THEN "signal" ELSE cause
    /\ UNCHANGED <<inExitTrap, cleanupEnds, exitCode, readyOn, hVars>>
    /\ UNCHANGED <<envVars, fileVars, stopVars>>
    /\ UNCHANGED restVars

\* cleanup, line 117: if [ -f .service_pids ]
CleanupBegin ==
    /\ Running /\ pc = "cleanup"
    /\ cidx' = 1
    /\ IF pidsExists
       THEN pc' = "cl_pids" /\ cpids' = pids
       ELSE pc' = "cl_port" /\ cpids' = <<>>
    /\ UNCHANGED <<svc, attempt, trapVars, readyOn, hVars, cause>>
    /\ UNCHANGED <<sigVars, envVars, fileVars, stopVars>>
    /\ UNCHANGED restVars

\* cleanup, line 121: kill -TERM "$pid" || kill -9 "$pid" || true, for a
\* process that kill -0 found alive: kill -9 runs only if kill -TERM fails
cleanup_stop(p, i) == SendTERM(p, i)

\* a cleanup whose loop reads only the first recorded PID
CleanupPid_FirstOnly ==
    /\ Running /\ pc = "cl_pids"
    /\ IF cidx <= Len(cpids) /\ cidx <= 1
       THEN /\ proc' = cleanup_stop(proc, cpids[cidx])
            /\ stopped' = stopped \cup {cpids[cidx]}
            /\ cidx' = cidx + 1
            /\ pc' = pc
       ELSE /\ pc' = "cl_rm"
            /\ UNCHANGED <<proc, cidx, stopped>>
    /\ UNCHANGED <<svc, attempt, cpids, trapVars, readyOn, reported, cause>>
    /\ UNCHANGED <<sigVars, foreign, prior, fileVars, stopVars>>
    /\ UNCHANGED restVars

\* cleanup, lines 118-123: one pass of `while read pid`
CleanupPid ==
    /\ Running /\ pc = "cl_pids"
    /\ IF cidx <= Len(cpids)
       THEN /\ proc' = cleanup_stop(proc, cpids[cidx])
            /\ stopped' = stopped \cup {cpids[cidx]}
            /\ cidx' = cidx + 1
            /\ pc' = pc
       ELSE /\ pc' = "cl_rm"
            /\ UNCHANGED <<proc, cidx, stopped>>
    /\ UNCHANGED <<svc, attempt, cpids, trapVars, readyOn, reported, cause>>
    /\ UNCHANGED <<sigVars, foreign, prior, fileVars, stopVars>>
    /\ UNCHANGED restVars

\* cleanup, line 124: rm -f .service_pids; with the record of the services
\* goes what was noted about them
CleanupRm ==
    /\ Running /\ pc = "cl_rm"
    /\ pidsExists' = FALSE
    /\ pids' = <<>>
    /\ pc' = "cl_port"
    /\ cidx' = 1
    /\ cpids' = <<>>
    /\ stopped' = {}
    /\ reported' = 0
    /\ UNCHANGED <<svc, attempt, trapVars, readyOn, cause>>
    /\ UNCHANGED <<sigVars, envVars, stopVars>>
    /\ UNCHANGED restVars

\* cleanup, lines 128-130: kill_port for each of the three ports
CleanupKillPort ==
    /\ Running /\ pc = "cl_port"
    /\ proc' = kill_port_proc(proc, cidx)
    /\ foreign' = kill_port_foreign(foreign, cidx)
    /\ UNCHANGED prior
    /\ IF cidx < NumServices
       THEN cidx' = cidx + 1 /\ pc' = pc
       ELSE cidx' = 1 /\ pc' = "cl_exit"
    /\ UNCHANGED <<svc, attempt, cpids, trapVars, readyOn, hVars, cause>>
    /\ UNCHANGED <<sigVars, fileVars, stopVars>>
    /\ UNCHANGED restVars

\* cleanup, line 132: the message it prints when it ends, whatever the
\* kills did
cleanup_report == "All services stopped"

\* cleanup, lines 132-133: print "All services stopped"; exit 0
CleanupExit ==
    /\ Running /\ pc = "cl_exit"
    /\ cleanupEnds' = cleanupEnds + 1
    /\ Exit(0)
    /\ UNCHANGED <<readyOn, hVars, cause>>
    /\ UNCHANGED <<envVars, fileVars, stopVars>>
    /\ UNCHANGED restVars

\* ------------------------------------------------------------ environment
\* signals whose trap has run: every execution of cleanup but the EXIT
\* trap's was begun by one
SignalsHandled == cleanupStarts - (IF inExitTrap THEN 1 ELSE 0)

\* SIGINT (Ctrl+C) or SIGTERM is delivered to the supervisor (signals that
\* arrive while one is pending are handled as one)
Signal ==
    /\ pc # "done"
    /\ ~sigPending
    /\ SignalsHandled < MaxSignals
    /\ sigPending' = TRUE
    /\ UNCHANGED <<supVars, envVars, fileVars, stopVars>>
    /\ UNCHANGED restVars

\* a starting service binds its port, if the port is free
Bind(i) ==
    /\ proc[i].st = "starting"
    /\ ~check_port(i)
    /\ proc' = [proc EXCEPT ![i].st = "listening"]
    /\ UNCHANGED <<supVars, sigVars, foreign, prior, fileVars, stopVars>>
    /\ UNCHANGED restVars

\* a service process ends on its own (bad command, bind failure, crash)
Crash(i) ==
    /\ proc[i].st \in Alive
    /\ proc' = [proc EXCEPT ![i] = DeadProc]
    /\ UNCHANGED <<supVars, sigVars, foreign, prior, fileVars, stopVars>>
    /\ UNCHANGED restVars

\* ------------------------------------------------------------ stop_all.sh
\* The services whose command line a pattern of lines 565-569 matches:
\* "python.*src/main.py", "python.*runner.py", "python.*app.py",
\* "npm.*start", "node.*react-scripts" against the commands start_all.sh
\* launches (the frontend is npm start and the react-scripts server it runs).
PatternMatches(k) ==
    CASE k = 1 -> {}
      [] k = 2 -> {1}
      [] k = 3 -> {2}
      [] k = 4 -> {3}
      [] OTHER -> {3}

\* line 536: pgrep -f "$pattern"
pgrep(k) == {i \in PatternMatches(k) : proc[i].st \in Alive}

\* line 536, on the processes an earlier run left: they were launched by
\* start_all.sh or by quick_start.sh (python src/main.py), so the chatbot is
\* found by the first or the second pattern
pgrep_prior(k) == prior \cap (IF k = 1 THEN {1} ELSE PatternMatches(k))

\* processes and files, as a stop request can change them
EnvState == <<[i \in Svc |-> proc[i].st], foreign, prior, pidsExists>>

\* nothing is running and no PID file exists
Quiet ==
    /\ \A i \in Svc : proc[i].st \notin Alive /\ foreign[i] \notin ForeignAlive
    /\ prior = {}
    /\ ~pidsExists

\* the operator runs ./stop_all.sh: once the stack is up or the supervisor
\* has ended, and again after that once the supervisor has ended
StopStart ==
    /\ spc \in {"idle", "done"}
    /\ stopRuns < MaxStopRuns
    /\ IF spc = "idle" THEN AllReady \/ pc = "done" ELSE pc = "done"
    /\ spc' = "pat_term"
    /\ sidx' = 1
    /\ spids' = {}
    /\ stopRuns' = stopRuns + 1
    /\ stopPre' = IF pc # "done" THEN "live"
                  ELSE IF Quiet THEN "quiet" ELSE "supdone"
    /\ stopSent' = FALSE
    /\ stopRemoved' = FALSE
    /\ stopSnap' = IF spc = "done" THEN EnvState ELSE <<>>
    /\ stopExit' = -1
    /\ UNCHANGED <<supVars, sigVars, envVars, fileVars>>
    /\ UNCHANGED restVars

\* what follows kill_by_pattern number sidx
StopPatternNext ==
    IF sidx < NumPatterns
    THEN spc' = "pat_term" /\ sidx' = sidx + 1
    ELSE spc' = "port" /\ sidx' = 1

\* kill_by_pattern, line 539: echo "$pids" | xargs kill -TERM
kill_TERM_all(p, S) ==
    [i \in Svc |-> IF i \in S THEN SendTERM(p, i)[i] ELSE p[i]]

\* kill_by_pattern, line 542: echo "$pids" | xargs kill -9
kill_9_all(p, S) ==
    [i \in Svc |-> IF i \in S THEN SendKILL(p, i)[i] ELSE p[i]]

\* kill_by_pattern, lines 536-540: pgrep, kill -TERM, (sleep 2)
StopPatternTerm ==
    /\ spc = "pat_term"
    /\ IF pgrep(sidx) # {} \/ pgrep_prior(sidx) # {}
       THEN /\ spids' = pgrep(sidx)
            /\ proc' = kill_TERM_all(proc, pgrep(sidx))
            /\ prior' \in {prior, prior \ pgrep_prior(sidx)}
            /\ stopSent' = TRUE
            /\ spc' = "pat_kill"
            /\ UNCHANGED sidx
       ELSE /\ StopPatternNext
            /\ UNCHANGED <<spids, proc, prior, stopSent>>
    /\ UNCHANGED <<stopRuns, stopPre, stopRemoved, stopSnap, stopExit>>
    /\ UNCHANGED <<supVars, sigVars, foreign, fileVars>>
    /\ UNCHANGED restVars

\* kill_by_pattern, line 542: force kill if still running
StopPatternKill ==
    /\ spc = "pat_kill"
    /\ proc' = kill_9_all(proc, spids)
    /\ prior' = prior \ pgrep_prior(sidx)
    /\ spids' = {}
    /\ StopPatternNext
    /\ UNCHANGED <<stopRuns, stopPre, stopSent, stopRemoved, stopSnap,
                   stopExit>>
    /\ UNCHANGED <<supVars, sigVars, foreign, fileVars>>
    /\ UNCHANGED restVars

\* kill_by_port, line 557, on a service process:
\* kill -TERM $pid || kill -9 $pid || true, for pid = $(lsof -ti :$port)
kill_by_port_proc(p, i) ==
    IF p[i].st = "listening" THEN SendTERM(p, i) ELSE p

\* kill_by_port, line 557, on the foreign process of the port
kill_by_port_foreign(f, i) == KillForeign(f, i)

\* kill_by_port, lines 554-561, for port number sidx
StopPort ==
    /\ spc = "port"
    /\ proc' = kill_by_port_proc(proc, sidx)
    /\ foreign' = kill_by_port_foreign(foreign, sidx)
    /\ UNCHANGED prior
    /\ stopSent' = (stopSent \/ check_port(sidx))
    /\ IF sidx < NumServices
       THEN spc' = "port" /\ sidx' = sidx + 1
       ELSE spc' = "rm" /\ sidx' = 1
    /\ UNCHANGED <<spids, stopRuns, stopPre, stopRemoved, stopSnap, stopExit>>
    /\ UNCHANGED <<supVars, sigVars, fileVars>>
    /\ UNCHANGED restVars

\* the status of pgrep/lsof reaching the end of the script: non-zero when
\* nothing was found to stop
stop_exit_status_found == IF stopSent THEN 0 ELSE 1

\* line 588: the status of the last command (echo); the script has no set -e
\* and every kill is followed by || true
stop_exit_status == 0

\* lines 577-588: remove the PID file if it exists; the script ends
StopRm ==
    /\ spc = "rm"
    /\ pidsExists' = FALSE
    /\ pids' = <<>>
    /\ stopRemoved' = pidsExists
    /\ spc' = "done"
    /\ stopExit' = stop_exit_status
    /\ UNCHANGED <<sidx, spids, stopRuns, stopPre, stopSent, stopSnap>>
    /\ UNCHANGED <<supVars, sigVars, envVars>>
    /\ UNCHANGED restVars

Supervisor ==
    \/ \E inRoot \in BOOLEAN : DirCheck(inRoot)
    \/ Prepare
    \/ PreflightCheck
    \/ PreflightKill
    \/ \E ok \in BOOLEAN : CheckDeps(ok)
    \/ \E ignoresTerm \in BOOLEAN : StartServiceSpawn(ignoresTerm)
    \/ StartServiceSpawnFails
    \/ StartServiceRecord
    \/ \E answer \in {"ok", "httperr", "failed"} : WaitProbe(answer)
    \/ WaitTimeout
    \/ MonitorCheck
    \/ MonitorEnd
    \/ TrapSignal
    \/ CleanupBegin
    \/ CleanupPid
    \/ CleanupRm
    \/ CleanupKillPort
    \/ CleanupExit

Environment ==
    \/ Signal
    \/ \E i \in Svc : Bind(i)
    \/ \E i \in Svc : Crash(i)

StopAll ==
    \/ StopStart
    \/ StopPatternTerm
    \/ StopPatternKill
    \/ StopPort
    \/ StopRm

Next == Supervisor \/ Environment \/ StopAll

Spec == Init /\ [][Next]_vars

\* the supervisor run after an earlier run of start_all.sh or quick_start.sh
SpecRerun == InitRerun /\ [][Next]_vars

\* the machine with the three ports free, or with another deployment of the
\* same stack on the three ports (the docker-compose one, say)
InitFair ==
    /\ Boot
    /\ \E f \in {"none", "transient", "persistent"} :
          foreign = [i \in Svc |-> f]
    /\ prior = {}
    /\ qpc = <<"off", 0>>
    /\ app = AppOff
    /\ dk = DockerOff

\* Both scripts are sequential shell programs whose waits are bounded (sleep,
\* curl --max-time): a script that has a next command executes it.  Nothing
\* is assumed of the services, the operator or the signals.
SpecFair ==
    InitFair /\ [][Next]_vars /\ WF_vars(Supervisor) /\ WF_vars(StopAll)

\* ---------------------------------------------------------- quick_start.sh
\* The script is a straight line: four pkill (lines 10-13), sleep, three
\* launches in the background (lines 19, 24, 29), then only echo.  It runs on
\* the same machine: proc are the processes it launches, prior the processes
\* an earlier run left.  It has no set -e and no trap.
NumQuickPatterns == 4

\* The services of an earlier run that a pkill pattern of lines 10-13 finds:
\* "python.*runner.py", "python.*src/main.py" (the chatbot, as start_all.sh
\* or as quick_start.sh launched it), "python.*app.py", "npm.*start".
QuickPatternMatches(k) ==
    CASE k = 1 -> {1}
      [] k = 2 -> {1}
      [] k = 3 -> {2}
      [] OTHER -> {3}

\* the machine when quick_start.sh begins
InitQuick ==
    Machine /\ qpc = <<"pkill", 1>> /\ app = AppOff /\ dk = DockerOff

\* lines 10-13: pkill -f "<pattern>" 2>/dev/null || true sends SIGTERM and
\* does not wait; a process that got it exits now, later or never
QuickKill ==
    /\ qpc[1] = "pkill"
    /\ \E gone \in SUBSET (prior \cap QuickPatternMatches(qpc[2])) :
          prior' = prior \ gone
    /\ qpc' = IF qpc[2] < NumQuickPatterns
              THEN <<"pkill", qpc[2] + 1>>
              ELSE <<"launch", 1>>
    /\ UNCHANGED <<supVars, sigVars, proc, foreign, fileVars, stopVars>>
    /\ UNCHANGED <<log, app, dk>>

\* a script that launches a service only once the one before it listens
QuickLaunch_Gated(ignoresTerm) ==
    /\ qpc[1] = "launch"
    /\ qpc[2] > 1 => proc[qpc[2] - 1].st = "listening"
    /\ proc' = [proc EXCEPT ![qpc[2]] =
                  [st |-> "starting", ign |-> ignoresTerm, term |-> FALSE]]
    /\ qpc' = IF qpc[2] < NumServices
              THEN <<"launch", qpc[2] + 1>>
              ELSE <<"done", 0>>
    /\ UNCHANGED <<supVars, sigVars, foreign, prior, fileVars, stopVars>>
    /\ UNCHANGED <<log, app, dk>>

\* lines 19, 24, 29: python src/main.py &, python app.py &, npm start &; the
\* next command follows at once.  After the third only echo follows (lines
\* 33-57) and the script ends; its background processes go on.
QuickLaunch(ignoresTerm) ==
    /\ qpc[1] = "launch"
    /\ proc' = [proc EXCEPT ![qpc[2]] =
                  [st |-> "starting", ign |-> ignoresTerm, term |-> FALSE]]
    /\ qpc' = IF qpc[2] < NumServices
              THEN <<"launch", qpc[2] + 1>>
              ELSE <<"done", 0>>
    /\ UNCHANGED <<supVars, sigVars, foreign, prior, fileVars, stopVars>>
    /\ UNCHANGED <<log, app, dk>>

Quick ==
    \/ QuickKill
    \/ \E ignoresTerm \in BOOLEAN : QuickLaunch(ignoresTerm)

\* the processes, while quick_start.sh runs and after it
QuickEnvironment ==
    \/ \E i \in Svc : Bind(i)
    \/ \E i \in Svc : Crash(i)

NextQuick == Quick \/ QuickEnvironment

SpecQuick == InitQuick /\ [][NextQuick]_vars

\* ------------------------------------------- dashboard/frontend/src/App.js
\* One life of the App component: not yet mounted, mounted, unmounted.  calls
\* counts the invocations of fetchDashboardData, each invocation is named by
\* its number and stays in inflight until its Promise.all settles.

\* the only page being followed: nothing else runs on the machine
InitApp == Init /\ foreign = [i \in Svc |-> "none"]

\* fetchDashboardData up to its await (lines 36-49): setLoading(true),
\* setError(null), six requests sent
fetchDashboardData(a) ==
    [a EXCEPT !.calls = a.calls + 1,
              !.loading = TRUE,
              !.error = FALSE,
              !.inflight = a.inflight \cup {a.calls + 1},
              !.latest = "pending"]

\* the effect of lines 71-77 on mount: one invocation, then setInterval
AppMount ==
    /\ app.mounted = "no"
    /\ app' = [fetchDashboardData(app) EXCEPT !.mounted = "yes", !.timer = TRUE]
    /\ UNCHANGED <<supVars, sigVars, envVars, fileVars, stopVars, log, qpc,
                   dk>>

\* the interval of line 73 fires: it exists from setInterval to clearInterval
AppTick ==
    /\ app.timer
    /\ app.calls < MaxCalls
    /\ app' = [fetchDashboardData(app) EXCEPT !.ticks = app.ticks + 1]
    /\ UNCHANGED <<supVars, sigVars, envVars, fileVars, stopVars, log, qpc,
                   dk>>

\* a click on "Retry Connection" (line 153) or "Refresh Data" (line 187);
\* neither button is rendered while loading (lines 136-145)
AppClick ==
    /\ app.mounted = "yes"
    /\ ~app.loading
    /\ app.calls < MaxCalls
    /\ app' = [fetchDashboardData(app) EXCEPT !.clicks = app.clicks + 1]
    /\ UNCHANGED <<supVars, sigVars, envVars, fileVars, stopVars, log, qpc,
                   dk>>

\* what apiClient.get hands its caller: the parsed body, or an error
Returned == [returns |-> TRUE, throws |-> FALSE]
Thrown == [returns |-> FALSE, throws |-> TRUE]

\* an apiClient.get without the check of response.ok
apiClient_get_NoStatusCheck(response) ==
    IF ~response.arrives THEN Thrown
    ELSE IF ~response.json THEN Thrown
    ELSE Returned

\* apiClient.get (api.js lines 19-33): await fetch rejects when no response
\* comes (line 22), a response that is not ok throws (lines 23-25), await
\* response.json() rejects on a body that does not parse (line 26); the
\* catch logs and throws the error again (lines 29-32).  Otherwise the
\* parsed body is returned (line 28).
apiClient_get(response) ==
    IF ~response.arrives THEN Thrown
    ELSE IF ~response.ok THEN Thrown
    ELSE IF ~response.json THEN Thrown
    ELSE Returned

\* Promise.all (line 48) fulfils when no request was rejected
PromiseAll(rejected) == rejected = {}

\* what the setters of lines 57-62 leave in the six data states
StoreResults(a, id, rejected) ==
    IF PromiseAll(rejected) THEN [r \in Requests |-> id] ELSE a.data

\* the rest of an invocation (lines 56-68) once the requests have ended,
\* those of rejected with an error: the six results are stored, or the
\* error is, and loading is cleared; on an unmounted component the setters
\* change nothing
AppSettle(id, rejected) ==
    /\ id \in app.inflight
    /\ app' = IF app.mounted = "yes"
              THEN [app EXCEPT
                      !.inflight = app.inflight \ {id},
                      !.data = StoreResults(app, id, rejected),
                      !.error = IF PromiseAll(rejected) THEN app.error
                                                        ELSE TRUE,
                      !.loading = FALSE,
                      !.failed = rejected,
                      !.latest = IF id = app.calls
                                 THEN (IF PromiseAll(rejected) THEN "ok"
                                                               ELSE "fail")
                                 ELSE app.latest]
              ELSE [app EXCEPT !.inflight = app.inflight \ {id}]
    /\ UNCHANGED <<supVars, sigVars, envVars, fileVars, stopVars, log, qpc,
                   dk>>

\* an unmount that leaves the interval running
AppUnmount_NoClear ==
    /\ app.mounted = "yes"
    /\ app' = [app EXCEPT !.mounted = "gone"]
    /\ UNCHANGED <<supVars, sigVars, envVars, fileVars, stopVars, log, qpc,
                   dk>>

\* the cleanup the effect returned (line 76): clearInterval(interval)
AppUnmount ==
    /\ app.mounted = "yes"
    /\ app' = [app EXCEPT !.mounted = "gone", !.timer = FALSE]
    /\ UNCHANGED <<supVars, sigVars, envVars, fileVars, stopVars, log, qpc,
                   dk>>

NextApp ==
    \/ AppMount
    \/ AppTick
    \/ AppClick
    \/ \E id \in 1..MaxCalls, responses \in ResponseCases :
          AppSettle(id, {r \in Requests : apiClient_get(responses[r]).throws})
    \/ AppUnmount

SpecApp == InitApp /\ [][NextApp]_vars

\* ------------------------------------ docker-run.sh and docker-run.ps1
\* docker-run.sh is the script of DASHBOARD_README.md lines 225-538,
\* docker-run.ps1 the one of unnamed/part_003 lines 1-299.  Each is run on
\* its own machine with the same command, the same flags, the same reply to
\* the confirmation and the same outcomes of docker-compose down and up.

\* the replies to "Are you sure? (y/N)" that are followed: the line typed,
\* without its newline
Replies ==
    {<<>>, <<"y">>, <<"Y">>, <<"n">>, <<"N">>, <<"y", "e", "s">>,
     <<"n", "o">>, <<" ", "y">>}

DockerInputs ==
    [command : {"restart", "clean"},
     Detached : BOOLEAN,      \* -d / --detached, -Detached
     Build : BOOLEAN,         \* -b / --build, -Build
     reply : Replies,
     tools : BOOLEAN,         \* docker and docker-compose are installed
     template : BOOLEAN,      \* .env.example exists
     envFile : BOOLEAN,       \* .env.docker exists
     stack : {"up", "down"},  \* the containers of the project, at the start
     downOk : BOOLEAN,        \* docker-compose down ... succeeds
     upOk : BOOLEAN]          \* docker-compose up ... succeeds

\* a command line has been given to both scripts
InitDocker ==
    /\ Boot
    /\ foreign = [i \in Svc |-> "none"]
    /\ prior = {}
    /\ qpc = <<"off", 0>>
    /\ app = AppOff
    /\ \E in \in DockerInputs :
          LET start == [NoRun EXCEPT !.pc = "prereq",
                                     !.envFile = in.envFile,
                                     !.stack = in.stack,
                                     !.images = TRUE,
                                     !.volumes = TRUE]
          IN dk = [in |-> in, sh |-> start, ps |-> start]

\* docker-compose <args> on the machine of run r, succeeding or not
compose(r, args, ok) ==
    LET ran == [r EXCEPT !.calls = Append(r.calls, args)]
    IN IF ~ok THEN ran
       ELSE IF args[1] = "down"
       THEN [ran EXCEPT
               !.stack = "down",
               !.volumes = IF \E k \in 1..Len(args) : args[k] = "-v"
                           THEN FALSE ELSE r.volumes,
               !.images = IF \E k \in 1..Len(args) : args[k] = "--rmi"
                          THEN FALSE ELSE r.images]
       ELSE IF args[1] = "up"
       THEN [ran EXCEPT !.stack = "up", !.images = TRUE, !.volumes = TRUE]
       ELSE ran

\* the script ends with a status
Ends(r, status) == [r EXCEPT !.pc = "done", !.exit = status]

\* check_prerequisites (lines 295-328) / Test-Prerequisites (lines 84-118),
\* run before every command: docker --version, docker-compose --version,
\* and .env.docker copied from .env.example when it is missing; then the
\* case / switch on the command
Prerequisites(r, in) ==
    IF ~in.tools THEN Ends(r, 1)
    ELSE [compose(r, <<"--version">>, TRUE) EXCEPT
            !.envFile = r.envFile \/ in.template,
            !.pc = IF in.command = "restart" THEN "stop" ELSE "clean"]

\* the arguments both start functions build (lines 338-350 / 125-137)
compose_args(detached, build, is_prod) ==
    <<"up">> \o (IF detached THEN <<"-d">> ELSE <<>>)
             \o (IF build THEN <<"--build">> ELSE <<>>)
             \o (IF is_prod THEN <<"--profile", "production">> ELSE <<>>)

\* ---- docker-run.sh (set -e, line 230)

ShPrereq ==
    /\ dk.sh.pc = "prereq"
    /\ dk' = [dk EXCEPT !.sh = Prerequisites(dk.sh, dk.in)]
    /\ UNCHANGED <<supVars, sigVars, envVars, fileVars, stopVars, log, qpc,
                   app>>

\* restart_services line 380: stop_services (lines 366-375) runs
\* docker-compose down and returns 1 when it fails; it is called as a plain
\* command, so under set -e the script ends there with status 1
stop_services(r, ok) ==
    IF ok THEN [compose(r, <<"down">>, ok) EXCEPT !.pc = "start"]
    ELSE Ends(compose(r, <<"down">>, ok), 1)

ShStop ==
    /\ dk.sh.pc = "stop"
    /\ dk' = [dk EXCEPT !.sh = stop_services(dk.sh, dk.in.downOk)]
    /\ UNCHANGED <<supVars, sigVars, envVars, fileVars, stopVars, log, qpc,
                   app>>

\* start_services (lines 330-364): docker-compose up with the arguments;
\* when it succeeded and was detached, show_status (docker-compose ps);
\* when it failed, return 1, which ends the script
start_services(r, is_dev, is_prod, detached, build, ok) ==
    LET up == compose(r, compose_args(detached, build, is_prod), ok)
    IN IF ~ok THEN Ends(up, 1)
       ELSE IF detached THEN Ends(compose(up, <<"ps">>, TRUE), 0)
       ELSE Ends(up, 0)

\* restart_services lines 381-382: sleep 3;
\* start_services false false true false
ShStart ==
    /\ dk.sh.pc = "start"
    /\ dk' = [dk EXCEPT
                !.sh = start_services(dk.sh, FALSE, FALSE, TRUE, FALSE,
                                      dk.in.upOk)]
    /\ UNCHANGED <<supVars, sigVars, envVars, fileVars, stopVars, log, qpc,
                   app>>

\* read -p "..." -n 1 -r (line 419): REPLY is the first character typed,
\* nothing when the line is empty
read_n1(line) == IF Len(line) = 0 THEN <<>> ELSE <<line[1]>>

\* [[ $REPLY =~ ^[Yy]$ ]] (line 422)
matches_Yy(REPLY) == Len(REPLY) = 1 /\ REPLY[1] \in {"y", "Y"}

\* clean_environment (lines 415-432)
ShClean ==
    /\ dk.sh.pc = "clean"
    /\ dk' = [dk EXCEPT !.sh =
                IF matches_Yy(read_n1(dk.in.reply))
                THEN Ends(compose(dk.sh, <<"down", "-v", "--rmi", "all">>,
                                  dk.in.downOk),
                          IF dk.in.downOk THEN 0 ELSE 1)
                ELSE Ends(dk.sh, 0)]
    /\ UNCHANGED <<supVars, sigVars, envVars, fileVars, stopVars, log, qpc,
                   app>>

\* ---- docker-run.ps1

PsPrereq ==
    /\ dk.ps.pc = "prereq"
    /\ dk' = [dk EXCEPT !.ps = Prerequisites(dk.ps, dk.in)]
    /\ UNCHANGED <<supVars, sigVars, envVars, fileVars, stopVars, log, qpc,
                   app>>

\* Restart-Services line 168: Stop-Services (lines 154-163) runs
\* docker-compose down inside try/catch; whatever its outcome the function
\* returns and Restart-Services goes on
Stop_Services(r, ok) ==
    [compose(r, <<"down">>, ok) EXCEPT !.pc = "start"]

PsStop ==
    /\ dk.ps.pc = "stop"
    /\ dk' = [dk EXCEPT !.ps = Stop_Services(dk.ps, dk.in.downOk)]
    /\ UNCHANGED <<supVars, sigVars, envVars, fileVars, stopVars, log, qpc,
                   app>>

\* Start-Services (lines 120-152): docker-compose up with the arguments
\* built from the script's switches $Detached and $Build; Show-ServiceStatus
\* (docker-compose ps) when detached; a failure is caught or not noticed,
\* and the script ends with status 0
Start_Services(r, in, IsDev, IsProd, ok) ==
    LET up == compose(r, compose_args(in.Detached, in.Build, IsProd), ok)
    IN IF in.Detached THEN Ends(compose(up, <<"ps">>, TRUE), 0)
       ELSE Ends(up, 0)

\* Restart-Services lines 169-170: Start-Sleep -Seconds 3; Start-Services
PsStart ==
    /\ dk.ps.pc = "start"
    /\ dk' = [dk EXCEPT
                !.ps = Start_Services(dk.ps, dk.in, FALSE, FALSE,
                                      dk.in.upOk)]
    /\ UNCHANGED <<supVars, sigVars, envVars, fileVars, stopVars, log, qpc,
                   app>>

\* $confirm -eq "y" -or $confirm -eq "Y" (line 216) on the line Read-Host
\* returned (line 214); -eq on strings does not look at the case
confirm_eq_y(confirm) == Len(confirm) = 1 /\ confirm[1] \in {"y", "Y"}

\* Remove-DockerEnvironment (lines 210-226)
PsClean ==
    /\ dk.ps.pc = "clean"
    /\ dk' = [dk EXCEPT !.ps =
                IF confirm_eq_y(dk.in.reply)
                THEN Ends(compose(dk.ps, <<"down", "-v", "--rmi", "all">>,
                                  dk.in.downOk), 0)
                ELSE Ends(dk.ps, 0)]
    /\ UNCHANGED <<supVars, sigVars, envVars, fileVars, stopVars, log, qpc,
                   app>>

NextDocker ==
    \/ ShPrereq
    \/ ShStop
    \/ ShStart
    \/ ShClean
    \/ PsPrereq
    \/ PsStop
    \/ PsStart
    \/ PsClean

SpecDocker == InitDocker /\ [][NextDocker]_vars

\* ================================================================ claims
\* C1: a service is launched only after wait_for_service has returned
\* success for every service before it in the startup sequence; after a
\* failed wait no later service is launched.
C1_StartupOrder ==
    \A i \in Svc : \A j \in Svc : (i < j /\ Launched(j)) => Ready(i)

C1_Witness ==
    /\ pc = "done" /\ cause = "readiness"
    /\ Launched(2) /\ Ready(1) /\ ~Ready(2) /\ ~Launched(3)

\* C2: when a readiness wait times out, probing stops at the bounded attempt
\* count, no later service is launched, and once the supervisor has exited
\* none of the services it launched is still running.
C2_FullRollback ==
    /\ attempt <= max_attempts + 1
    /\ cause = "readiness" =>
         \A i \in Svc : \A j \in Svc : (i < j /\ ~Ready(i)) => ~Launched(j)
    /\ (pc = "done" /\ cause = "readiness") =>
         \A i \in Svc : proc[i].st \notin Alive

\* C3: after an interrupt that arrives when service 1 is Ready and service 2
\* is not, no service that had reached Ready is running once the supervisor
\* has exited.
C3_InterruptRollsBack ==
    (pc = "done" /\ cause = "signal" /\ Ready(1) /\ ~Ready(2)) =>
        \A i \in Svc : Ready(i) => proc[i].st \notin Alive

\* C4: cleanup runs to completion exactly once per supervisor run: when the
\* supervisor has exited, one execution of cleanup was begun and one ended.
C4_CleanupOnce ==
    pc = "done" => (cleanupStarts = 1 /\ cleanupEnds = 1)

\* C5: the supervisor's exit code is 0 for a requested stop (a signal) and
\* non-zero for a pre-flight, readiness or monitor-detected failure.
C5_ExitCodes ==
    pc = "done" =>
        /\ cause = "signal" => exitCode = 0
        /\ cause \in {"preflight", "readiness", "monitor"} => exitCode # 0

\* C6: after cleanup or stop_all.sh has completed following a stack in which
\* all services were Ready, no service process is listening on its port.
C6_PortsReleased ==
    /\ (pc = "done" /\ AllReady) => \A i \in Svc : proc[i].st # "listening"
    /\ (spc = "done" /\ AllReady) => \A i \in Svc : proc[i].st # "listening"

C6_Witness ==
    /\ pc = "done" /\ AllReady /\ cause = "signal" /\ stopRuns = 0
    /\ \A i \in Svc : proc[i].st = "dead"

\* C7: stop_all.sh run when nothing is running and no PID file exists sends
\* no signal, removes no file and ends with status 0; a second run in a row
\* leaves processes and files as the first left them.
C7_StopIdempotent ==
    /\ (spc = "done" /\ stopPre = "quiet") =>
         (~stopSent /\ ~stopRemoved /\ stopExit = 0 /\ Quiet)
    /\ (spc = "done" /\ stopRuns >= 2) => EnvState = stopSnap

C7_Witness ==
    spc = "done" /\ stopRuns = 2 /\ stopPre = "quiet" /\ stopExit = 0

\* the pre-flight check of port i has completed and the main script is
\* still before its end
PreflightDone(i) ==
    \/ pc \in {"pf_check", "pf_kill"} /\ svc > i
    \/ pc \in {"deps", "spawn", "record", "wait", "monitor", "end"}

\* C8: once the pre-flight check of a port has completed, the process that
\* held the port before the run is no longer running.
C8_PortReclaimed ==
    \A i \in Svc : PreflightDone(i) => foreign[i] \notin ForeignAlive

\* C9: a service becomes Ready only on a probe answered with a success
\* status.
C9_SuccessStatusOnly ==
    \A i \in Svc : readyOn[i] \in {"none", "ok"}

\* C10: cleanup force-kills every registered process that is still alive
\* after the graceful signal: once the supervisor has exited (and stop_all.sh
\* was not run), no process that was sent SIGTERM is still alive.
C10_ForceKillEscalation ==
    (pc = "done" /\ stopRuns = 0) =>
        \A i \in Svc : ~(proc[i].st \in Alive /\ proc[i].term)

\* the main script has not ended: the supervisor is in startup or monitoring
InMain ==
    pc \notin {"cleanup", "cl_pids", "cl_rm", "cl_port", "cl_exit", "done"}

\* C11: when a check of the monitoring loop finds the port of a Ready service
\* free, the supervisor names that service in an error and leaves the loop,
\* and it does nothing of that kind otherwise; once startup has completed no
\* service is launched again.
C11_MonitorStopsOnFailure ==
    [][ /\ (pc = "monitor" /\ ~sigPending /\ ~check_port(svc)
             /\ <<pc, svc>>' # <<pc, svc>>)
            => (pc' = "end" /\ reported' = svc /\ Ready(svc))
        /\ (pc = "monitor" /\ pc' = "end")
            => (~check_port(svc) /\ reported' = svc)
        /\ pc = "end" => pc' \notin {"monitor", "spawn", "record", "wait"}
        /\ pc = "monitor" => pc' \notin {"spawn", "record", "wait"}
        /\ AllReady => \A i \in Svc :
               proc'[i].st = "starting" => proc[i].st = "starting"
      ]_vars

C11_Witness ==
    /\ pc = "end" /\ reported = 2
    /\ proc[1].st = "listening" /\ proc[2].st = "dead"
    /\ proc[3].st = "listening"

\* C12: while a signal received during startup or monitoring is pending, the
\* only step the supervisor takes is to enter cleanup: no probe, no launch,
\* no liveness check happens first.
C12_SignalPreempts ==
    [][ (InMain /\ sigPending /\ supVars' # supVars)
          => /\ pc' = "cleanup"
             /\ cleanupStarts' = cleanupStarts + 1
             /\ readyOn' = readyOn
             /\ proc' = proc
             /\ pids' = pids
      ]_vars

C12_Witness ==
    /\ pc = "cleanup" /\ cause = "signal" /\ cleanupStarts = 1
    /\ Ready(1) /\ proc[2].st = "starting" /\ ~Ready(2) /\ ~Launched(3)

\* C13: a service is never launched while the process that held its port
\* before the run is still bound to it.
C13_NoLaunchOnHeldPort ==
    \A i \in Svc : Launched(i) => foreign[i] \notin ForeignAlive

\* C14: when the command of a service has already failed by the time
\* start_service records its PID, the supervisor does not go on to poll the
\* readiness of that service.
C14_LaunchFailureAtLaunch ==
    [][ (pc = "record" /\ proc[svc].st = "dead") => pc' # "wait" ]_vars

\* C15: .service_pids never lists a service twice, and no service is
\* launched while a process of the same service left by an earlier run is
\* still alive.
C15_OneProcessPerService ==
    /\ \A k \in 1..Len(pids) : \A l \in 1..Len(pids) :
          pids[k] = pids[l] => k = l
    /\ \A i \in Svc : Launched(i) => i \notin prior

\* service i is recorded in .service_pids
Registered(i) == pidsExists /\ \E k \in 1..Len(pids) : pids[k] = i

\* The state of the handle of service i, as the supervisor has treated it: no
\* handle while the service is not recorded; Failed once an error has named
\* it; Terminated once cleanup's PID loop has handled it; Ready once
\* wait_for_service has returned 0 for it; Starting otherwise.
HandleState(i) ==
    IF ~Registered(i) THEN "none"
    ELSE IF reported = i THEN "Failed"
    ELSE IF i \in stopped THEN "Terminated"
    ELSE IF Ready(i) THEN "Ready"
    ELSE "Starting"

\* the moves of a handle: creation, the transitions of the state machine,
\* and removal from the registry
HandleMoves ==
    {<<"none", "Starting">>, <<"Starting", "Ready">>, <<"Ready", "Failed">>,
     <<"Starting", "Failed">>, <<"Starting", "Terminated">>,
     <<"Ready", "Terminated">>}
    \cup {<<h, "none">> : h \in {"Starting", "Ready", "Failed", "Terminated"}}

\* C16: a handle changes state only along the moves of the state machine,
\* and for a handle that is Failed or Terminated no readiness success and no
\* new failure report happens any more.
C16_HandleTransitions ==
    [][ \A i \in Svc :
          /\ HandleState(i)' # HandleState(i)
               => <<HandleState(i), HandleState(i)'>> \in HandleMoves
          /\ HandleState(i) \in {"Failed", "Terminated"}
               => (readyOn'[i] = readyOn[i] /\ (reported' = i => reported = i))
      ]_vars

C16_Witness ==
    /\ pc = "cl_pids"
    /\ HandleState(1) = "Terminated" /\ HandleState(2) = "Failed"
    /\ 2 \in stopped

\* C17: cleanup leaves its PID loop only when every recorded PID has been
\* handled, runs kill_port for the three ports only after that and after
\* .service_pids is removed, and ends after the third port; when cleanup or
\* stop_all.sh has completed .service_pids does not exist, and stop_all.sh
\* reaches its port kills with no service process left alive.
C17_HandlesThenPorts ==
    /\ [](pc \in {"cl_port", "cl_exit", "done"} => ~pidsExists)
    /\ [](spc = "done" => ~pidsExists)
    /\ [](spc \in {"port", "rm"} => \A i \in Svc : proc[i].st \notin Alive)
    /\ [][ /\ (pc = "cl_pids" /\ pc' = "cl_rm")
               => \A k \in 1..Len(cpids) : cpids[k] \in stopped
           /\ (pc = "cl_port" /\ pc' = "cl_exit") => cidx = NumServices
           /\ (pc = "cl_port" /\ cidx' # cidx /\ pc' = "cl_port")
               => cidx' = cidx + 1
         ]_vars

C17_Witness ==
    /\ pc = "done" /\ cause = "readiness" /\ cleanupEnds = 1
    /\ Ready(1) /\ Ready(2) /\ Launched(3) /\ ~pidsExists

\* C18: a wait issues a probe only while attempt is at most 30; a successful
\* probe ends the wait at once; the wait fails exactly when 30 probes have
\* failed, and then nothing but the failure follows.
C18_BoundedProbes ==
    /\ [](attempt \in 1..(max_attempts + 1))
    /\ [][ /\ (pc = "wait" /\ attempt' = attempt + 1)
               => attempt <= max_attempts
           /\ readyOn' # readyOn
               => (pc = "wait" /\ attempt <= max_attempts
                   /\ readyOn[svc] = "none" /\ readyOn'[svc] # "none"
                   /\ <<pc, svc>>' # <<pc, svc>> /\ attempt' = 1)
           /\ (pc = "wait" /\ cause = "none" /\ cause' = "readiness")
               => (attempt = max_attempts + 1 /\ reported' = svc)
           /\ (pc = "wait" /\ attempt = max_attempts + 1
                 /\ supVars' # supVars)
               => pc' = "cleanup"
         ]_vars

C18_Witness ==
    /\ pc = "cleanup" /\ cause = "readiness" /\ reported = 2
    /\ readyOn[1] = "ok" /\ ~Ready(2)

\* C19: the supervisor is in its monitoring loop only when all three
\* services are Ready and no readiness wait has failed; a run with a failed
\* wait or a startup that did not complete never reports a monitored service.
C19_MonitorAfterAllReady ==
    /\ pc \in {"monitor", "end"} => (AllReady /\ cause \in {"none", "monitor"})
    /\ cause = "monitor" => AllReady
    /\ ~AllReady => pc \notin {"monitor", "end"}

C19_Witness ==
    /\ pc = "monitor" /\ svc = 2 /\ AllReady
    /\ \A i \in Svc : proc[i].st = "listening"

\* C20: a service is launched only if it has not been launched before in
\* this run; after a failed wait (or any other end of the main script) no
\* launch follows.
C20_LaunchedOnce ==
    [][ /\ (pc' = "record" /\ pc # "record")
            => (pc = "spawn" /\ ~Launched(svc) /\ cause = "none")
        /\ cause # "none" => pc' \notin {"spawn", "record", "wait"}
        /\ \A i \in Svc :
              (Launched(i) /\ proc'[i].st = "starting")
                 => proc[i].st = "starting"
      ]_vars

C20_Witness ==
    /\ pc = "cl_exit" /\ cause = "readiness"
    /\ proc[1].st = "dead" /\ ~Ready(1) /\ ~Launched(2)

\* C21: when a service process is still alive after cleanup has ended, the
\* message cleanup printed is not that all services were stopped.
C21_ReportsSurvivors ==
    (pc = "done" /\ stopRuns = 0 /\ cleanupEnds >= 1
       /\ \E i \in Svc : proc[i].st \in Alive)
      => cleanup_report # "All services stopped"

\* C22: the log of a service still begins with what the launches of an
\* earlier run wrote to it.
C22_LogAppendOnly ==
    \A i \in Svc : Len(log[i]) >= 1 /\ log[i][1] = "earlier"

\* what the launch of service i has to be given: its port, and the URL of
\* the service it calls (the dashboard backend calls the chatbot, the
\* frontend the backend)
RequiredSettings(i) ==
    CASE i = 1 -> {"port"}
      [] i = 2 -> {"port", "chatbot_url"}
      [] OTHER -> {"port", "backend_url"}

\* C23: every launched service was given its port and the URLs of its
\* upstream services.
C23_LaunchSettings ==
    \A i \in Svc : Launched(i) => RequiredSettings(i) \subseteq passed(i)

\* C26: an occupant that the pre-flight kill ends, and that exits on a
\* graceful signal, was sent the graceful signal and not the forced kill.
C26_GracefulFirst ==
    [][ (pc = "pf_kill" /\ pc' # "pf_kill" /\ ~sigPending
           /\ foreign[svc] = "transient" /\ foreign'[svc] = "none")
          => kill_port_signal = "TERM"
      ]_vars

\* C27: after a run ended by an interrupt, every process the supervisor
\* spawned that exits on SIGTERM is gone, wherever in start_service the
\* interrupt was handled.
C27_InterruptedLaunch ==
    (pc = "done" /\ cause = "signal" /\ stopRuns = 0)
      => \A i \in Svc : proc[i].st \in Alive => proc[i].ign

\* C28: in a run that aborts before launching any service, no step of the
\* supervisor ends a process that held a port before the run.
C28_AbortKillsNothing ==
    [][ (cause = "preflight" /\ spc = "idle") => foreign' = foreign ]_vars

\* C30: after a run whose monitoring loop stopped on a missing service, none
\* of the three services is running once the supervisor has exited.
C30_NoneLeftAfterMonitorStop ==
    (pc = "done" /\ cause = "monitor" /\ stopRuns = 0)
      => \A i \in Svc : proc[i].st \notin Alive

\* C24: whenever quick_start.sh is at a launch, the launch can happen at
\* once, whatever the state of the services launched before; every step from
\* the first launch on launches the next service and changes no other
\* process; when the script has ended all three services have been launched.
C24_NoReadinessGate ==
    /\ [](qpc[1] = "launch" => ENABLED Quick)
    /\ [](qpc[1] = "done" => \A i \in Svc : Launched(i))
    /\ [][ (qpc[1] = "launch" /\ qpc' # qpc)
             => /\ proc'[qpc[2]].st = "starting"
                /\ \A i \in Svc \ {qpc[2]} : proc'[i] = proc[i]
                /\ qpc' \in {<<"launch", qpc[2] + 1>>, <<"done", 0>>}
       ]_vars

C24_Witness ==
    /\ qpc[1] = "done" /\ proc[1].st = "starting"
    /\ proc[2].st \in Alive /\ proc[3].st \in Alive

\* C25: fetchDashboardData has been invoked once for the mount, once for
\* every tick of the interval and once for every click, and no more; the
\* mount invokes it and starts the interval; after the unmount the interval
\* is cleared, no tick happens and nothing invokes it again.
C25_FetchInvocations ==
    /\ [](app.calls = (IF app.mounted = "no" THEN 0 ELSE 1)
                        + app.ticks + app.clicks)
    /\ [](app.mounted = "gone" => ~app.timer)
    /\ [][ /\ (app.mounted = "no" /\ app'.mounted = "yes")
               => (app'.calls = 1 /\ app'.timer)
           /\ app.mounted = "gone"
               => (app'.calls = app.calls /\ app'.ticks = app.ticks)
       ]_vars

C25_Witness ==
    /\ app.mounted = "gone"
    /\ app.ticks >= 1
    /\ app.clicks >= 1
    /\ app.inflight # {}

\* C29: when stop_all.sh is run while the supervisor is alive with the stack
\* up, the supervisor ends, and once both have ended no service is running
\* and .service_pids does not exist, in whatever order their steps went.
C29_StopDuringMonitor ==
    /\ [](  (pc = "done" /\ spc = "done" /\ stopRuns = 1 /\ stopPre = "live")
          => (~pidsExists /\ \A i \in Svc : proc[i].st \notin Alive))
    /\ (stopRuns = 1 /\ stopPre = "live") ~> (pc = "done")

\* the invocation that a step of the mounted component settles
Settles(id) ==
    /\ app.mounted = "yes"
    /\ app'.calls = app.calls
    /\ id \in app.inflight \ app'.inflight

\* C31: when an invocation of fetchDashboardData settles on the mounted
\* component with one of its six requests failed, error is set and none of
\* the six data states changes; when all six succeeded, all six data states
\* are replaced by its results and error is null.
C31_AllOrNothing ==
    [][ \A id \in 1..MaxCalls :
          Settles(id) =>
             IF app'.failed # {}
             THEN app'.error /\ app'.data = app.data
             ELSE ~app'.error /\ app'.data = [r \in Requests |-> id]
      ]_vars

\* C32: on the mounted component loading is true whenever an invocation
\* of fetchDashboardData is in flight, and false whenever none is in flight
\* after the first.
C32_LoadingTracksInflight ==
    app.mounted = "yes" =>
       /\ app.inflight # {} => app.loading
       /\ (app.inflight = {} /\ app.calls >= 1) => ~app.loading

\* C33: once every invocation of fetchDashboardData has settled on the
\* mounted component, what is shown is the outcome of the invocation that
\* started last: its six results and no error if it succeeded, the error
\* if it failed.
C33_LastStartedWins ==
    (app.mounted = "yes" /\ app.inflight = {} /\ app.calls >= 2) =>
       /\ app.latest = "ok" =>
             (~app.error /\ app.data = [r \in Requests |-> app.calls])
       /\ app.latest = "fail" => app.error

\* C34: apiClient.get returns the parsed body exactly when a response came,
\* it is ok and its body is valid JSON; in every other case it throws and
\* returns nothing; and the six data states never hold a result of an
\* invocation in which a request failed.
C34_GetReturnsOrThrows ==
    /\ \A x \in Responses :
          /\ apiClient_get(x).returns <=> (x.arrives /\ x.ok /\ x.json)
          /\ apiClient_get(x).throws <=> ~apiClient_get(x).returns
    /\ [][ \A id \in 1..MaxCalls :
             (Settles(id) /\ app'.failed # {})
                => \A r \in Requests : app'.data[r] # id ]_vars

C34_Witness ==
    /\ app.mounted = "yes"
    /\ app.failed # {} /\ app.failed # Requests
    /\ app.error
    /\ \E r \in Requests : app.data[r] # 0

\* the docker-compose command lines of a run other than the version query
\* of the prerequisite check
ProjectCalls(r) ==
    {k \in 1..Len(r.calls) : r.calls[k] # <<"--version">>}

\* what a run of the clean command must be like
CleanAsClaimed(r) ==
    (dk.in.command = "clean" /\ r.pc = "done" /\ dk.in.tools) =>
       IF dk.in.reply \in {<<"y">>, <<"Y">>}
       THEN dk.in.downOk => (r.stack = "down" /\ ~r.images /\ ~r.volumes)
       ELSE /\ ProjectCalls(r) = {}
            /\ r.envFile = dk.in.envFile
            /\ r.stack = dk.in.stack /\ r.images /\ r.volumes

\* C35: clean removes the containers, images and volumes when the reply
\* is exactly y or Y; on any other reply, the empty one too, the script has
\* run no docker-compose command and has changed nothing, in docker-run.sh
\* and in docker-run.ps1.
C35_CleanOnlyOnYes == CleanAsClaimed(dk.sh) /\ CleanAsClaimed(dk.ps)

\* C36: for restart both scripts run docker-compose down and then
\* docker-compose up, also when the down fails, and both have run the same
\* docker-compose command lines when they have ended.
C36_RestartSame ==
    (/\ dk.in.command = "restart" /\ dk.in.tools
     /\ dk.sh.pc = "done" /\ dk.ps.pc = "done")
      => /\ dk.sh.calls = dk.ps.calls
         /\ \A r \in {dk.sh, dk.ps} :
               /\ Len(r.calls) >= 3
               /\ r.calls[2] = <<"down">>
               /\ r.calls[3][1] = "up"

====
